---------------------------- MODULE Spec2Model ----------------------------
(***************************************************************************)
(* A model of the post and comment services of nest-app                    *)
(* (src/src/module/comment/comment.service.ts: CommentService and          *)
(* PostService).  The relational store behind Prisma is modelled as five   *)
(* tables; every Prisma call (findUnique, create, count, update, delete,   *)
(* findMany) is one atomic step, and a handler is the sequence of its      *)
(* store calls.  Requests are handled by processes whose store calls       *)
(* interleave (no handler opens a transaction); the sequential             *)
(* specifications run each handler from its first store call to its last   *)
(* without interleaving.                                                   *)
(***************************************************************************)
EXTENDS Integers, Sequences, FiniteSets, TLC

(* ------------------------------ bounds -------------------------------- *)

\* Users who like and unlike are 1..MaxUsers.
MaxUsers == 2
\* At most MaxComments comments are ever created.
MaxComments == 2
\* The number of posts stored in the pagination specification is 0..MaxStored.
MaxStored == 45
\* The number of calls made in the fully interleaved specification Spec.
MaxCalls == 3

Users == 1..MaxUsers
\* The users who write posts and comments.
Authors == {1, 2}
\* The posts of the seeded store.
PostIds == {1, 2}
\* The post ids a call may name; 3 names no post of the seeded store.
PostArgs == PostIds \cup {3}
Procs == {1, 2}
\* null / undefined of an id (a parentCommentId, a cursor, a viewer).
NoId == 0
\* Texts of comments; the empty text "" is 0.
EmptyText == 0
Texts == {1}
\* Titles are sequences of characters; character 2 is the upper case of 1.
Titles == {<<2>>, <<1, 1>>}
\* The values generateId() may return.
GenIds == {1, 2}

(* ------------------------------- state -------------------------------- *)

VARIABLES
  post,         \* table Post: records [id, slug, userId]; createdAt order is id order
  postStats,    \* table PostStats: records [postId, likes, commentsCount]
  postLike,     \* table PostLike: records [postId, userId], unique per pair
  comment,      \* table Comment: records [id, postId, parentCommentId, level, userId,
                \*   text, likes, subCommentsCount, deleted]
  commentLike,  \* table CommentLike: records [commentId, userId], unique per pair
  postSeq,      \* number of posts created so far (the next post id is postSeq + 1)
  commentSeq,   \* number of comments created so far
  call,         \* per process: the call it is serving or has last served
  budget,       \* calls that may still be made (-1: no limit)
  walk          \* the pagination client: [state, cursor, got, pages]

vars == <<post, postStats, postLike, comment, commentLike, postSeq, commentSeq,
          call, budget, walk>>

\* The store as one value, as the handlers see it.
DB ==
  [post |-> post, postStats |-> postStats, postLike |-> postLike,
   comment |-> comment, commentLike |-> commentLike,
   postSeq |-> postSeq, commentSeq |-> commentSeq]

EmptyDB ==
  [post |-> {}, postStats |-> {}, postLike |-> {}, comment |-> {},
   commentLike |-> {}, postSeq |-> 0, commentSeq |-> 0]

Final == {"idle", "done", "failed"}

\* A process that has served no call yet.
IdleCall ==
  [op |-> "none", pc |-> "idle", userId |-> NoId, postId |-> NoId,
   commentId |-> NoId, parentCommentId |-> NoId, title |-> <<>>, gen |-> 0,
   text |-> EmptyText, found |-> FALSE, cnt |-> 0, slug |-> <<>>,
   parentLevel |-> 0, newId |-> NoId, err |-> "",
   \* history: no other process has made a store call since this call began; the
   \* store when the call began (when the mode records it); whether the post's
   \* cached likes then differed from the number of its join rows; whether the
   \* call repeats the call this process has just served with success, no other
   \* process having made a store call since that one began, and if so the
   \* post's cached likes between the two
   quiet |-> TRUE, pre |-> EmptyDB, stale |-> FALSE, repeat |-> FALSE, likes0 |-> 0]

\* How calls are served: atomic runs a handler without interleaving; snapshot
\* records the store at the start of each call.
Atomic == [atomic |-> TRUE, snapshot |-> TRUE]
Steps == [atomic |-> FALSE, snapshot |-> TRUE]
StepsOnly == [atomic |-> FALSE, snapshot |-> FALSE]

\* The outcome of one store call: the store and the call after it.
Goto(db, c, l) == [db |-> db, c |-> [c EXCEPT !.pc = l]]
Fail(db, c, e) == [db |-> db, c |-> [c EXCEPT !.pc = "failed", !.err = e]]

(* ------------------------- store constraints -------------------------- *)

\* Foreign keys of the schema: a PostLike, PostStats or Comment row names a stored post.
PostExists(db, postId) == \E p \in db.post : p.id = postId
CommentExists(db, commentId) == \E k \in db.comment : k.id = commentId
StatsExists(db, postId) == \E s \in db.postStats : s.postId = postId

(* ----------------------- PostService: post likes ---------------------- *)

\* prisma.postLike.count({ where: { postId } })
PostLikeCount_AllRows(db, postId) == Cardinality(db.postLike)
PostLikeCount(db, postId) ==
  Cardinality({l \in db.postLike : l.postId = postId})

\* The likes value updatePostLikes writes, given the counted rows.
LikesToStore_Increment(db, c) ==
  LET s == CHOOSE s \in db.postStats : s.postId = c.postId
  IN  IF c.op = "likePost" THEN s.likes + 1
      ELSE IF s.likes > 0 THEN s.likes - 1 ELSE 0
LikesToStore(db, c) == c.cnt

\* updatePostLikes: count the join rows, then write the count to PostStats.
UpdatePostLikesStep(db, c) ==
  CASE c.pc = "upl_count" ->
         Goto(db, [c EXCEPT !.cnt = PostLikeCount(db, c.postId)], "upl_update")
    [] c.pc = "upl_update" ->
         IF ~StatsExists(db, c.postId) THEN Fail(db, c, "RecordNotFound")
         ELSE Goto([db EXCEPT !.postStats =
                      {IF s.postId = c.postId
                         THEN [s EXCEPT !.likes = LikesToStore(db, c)] ELSE s
                       : s \in db.postStats}],
                   c, "done")

\* Whether likePost creates the join row after its lookup.
LikeCreates_Always(c) == TRUE
LikeCreates(c) == ~c.found

\* likePost: look the join row up, create it when absent, updatePostLikes.
LikePostStep(db, c) ==
  LET row == [postId |-> c.postId, userId |-> c.userId] IN
  CASE c.pc = "lp_find" ->
         LET c1 == [c EXCEPT !.found = row \in db.postLike]
         IN  Goto(db, c1, IF LikeCreates(c1) THEN "lp_create" ELSE "upl_count")
    [] c.pc = "lp_create" ->
         IF ~PostExists(db, c.postId) THEN Fail(db, c, "ForeignKey")
         ELSE IF row \in db.postLike THEN Fail(db, c, "Unique")
         ELSE Goto([db EXCEPT !.postLike = @ \cup {row}], c, "upl_count")

\* unlikePost: look the join row up, delete it when present, updatePostLikes.
UnlikePostStep(db, c) ==
  LET row == [postId |-> c.postId, userId |-> c.userId] IN
  CASE c.pc = "ulp_find" ->
         LET c1 == [c EXCEPT !.found = row \in db.postLike]
         IN  Goto(db, c1, IF c1.found THEN "ulp_delete" ELSE "upl_count")
    [] c.pc = "ulp_delete" ->
         IF row \notin db.postLike THEN Fail(db, c, "RecordNotFound")
         ELSE Goto([db EXCEPT !.postLike = @ \ {row}], c, "upl_count")

(* --------------------- PostService: create, delete --------------------- *)

\* slugify(title) of src/utils/slugify: lower-cases the title's characters.
Slugify(title) == [i \in DOMAIN title |-> IF title[i] = 2 THEN 1 ELSE title[i]]

SlugTaken(db, slug) == \E p \in db.post : p.slug = slug

\* createPost: derive the slug, suffix it when taken, create the post, then its stats.
CreatePostStep(db, c) ==
  CASE c.pc = "cp_find" ->
         LET slug0 == Slugify(c.title)
             taken == SlugTaken(db, slug0)
         IN  Goto(db, [c EXCEPT !.found = taken,
                                !.slug = IF taken THEN Append(slug0, c.gen) ELSE slug0],
                  "cp_create")
    [] c.pc = "cp_create" ->
         IF SlugTaken(db, c.slug) THEN Fail(db, c, "Unique")
         ELSE LET id == db.postSeq + 1
              IN  Goto([db EXCEPT !.post = @ \cup {[id |-> id, slug |-> c.slug,
                                                     userId |-> c.userId]},
                                  !.postSeq = id],
                       [c EXCEPT !.newId = id], "cp_stats")
    [] c.pc = "cp_stats" ->
         IF ~PostExists(db, c.newId) THEN Fail(db, c, "ForeignKey")
         ELSE IF StatsExists(db, c.newId) THEN Fail(db, c, "Unique")
         ELSE Goto([db EXCEPT !.postStats = @ \cup {[postId |-> c.newId, likes |-> 0,
                                                      commentsCount |-> 0]}],
                   c, "done")

\* Deleting a post removes, by ownership, its stats, likes and comments (and their
\* replies and likes).
CascadeDeletePost(db, postId) ==
  LET gone == {k \in db.comment : k.postId = postId}
      goneIds == {k.id : k \in gone}
      orphans == {k \in db.comment : k.parentCommentId \in goneIds}
      allIds == goneIds \cup {k.id : k \in orphans}
  IN  [db EXCEPT !.post = {p \in @ : p.id # postId},
                 !.postStats = {s \in @ : s.postId # postId},
                 !.postLike = {l \in @ : l.postId # postId},
                 !.comment = {k \in @ : k.id \notin allIds},
                 !.commentLike = {l \in @ : l.commentId \notin allIds}]

\* deletePost: findPostById, the author check, then post.delete.
DeletePostStep(db, c) ==
  CASE c.pc = "dp_find" ->
         IF ~PostExists(db, c.postId) THEN Fail(db, c, "NotFound")
         ELSE IF (CHOOSE p \in db.post : p.id = c.postId).userId # c.userId
           THEN Fail(db, c, "Unauthorized")
         ELSE Goto(db, c, "dp_delete")
    [] c.pc = "dp_delete" ->
         IF ~PostExists(db, c.postId) THEN Fail(db, c, "RecordNotFound")
         ELSE Goto(CascadeDeletePost(db, c.postId), c, "done")

(* --------------------------- CommentService --------------------------- *)

\* comment.level >= 2 is refused.
MaxLevel == 2

NoComment ==
  [id |-> NoId, postId |-> NoId, parentCommentId |-> NoId, level |-> 0,
   userId |-> NoId, text |-> EmptyText, likes |-> 0, subCommentsCount |-> 0,
   deleted |-> FALSE]

CommentById(db, commentId) ==
  IF CommentExists(db, commentId)
    THEN CHOOSE k \in db.comment : k.id = commentId
    ELSE NoComment

\* findComment: NotFound when the comment is absent or soft-deleted.
FindComment(db, commentId) ==
  IF ~CommentExists(db, commentId) \/ CommentById(db, commentId).deleted
    THEN [err |-> "NotFound", comment |-> NoComment]
    ELSE [err |-> "", comment |-> CommentById(db, commentId)]

\* The depth check of createComment.
LevelRefused_OffByOne(level) == level > MaxLevel
LevelRefused(level) == level >= MaxLevel

\* prisma.comment.count({ where: { postId } })
CommentCount_LiveOnly(db, postId) ==
  Cardinality({k \in db.comment : k.postId = postId /\ ~k.deleted})
CommentCount(db, postId) ==
  Cardinality({k \in db.comment : k.postId = postId})

\* updatePostCommentsCount: count the post's comments, write the count to PostStats.
UpdatePostCommentsCountStep(db, c) ==
  CASE c.pc = "upc_count" ->
         Goto(db, [c EXCEPT !.cnt = CommentCount(db, c.postId)], "upc_update")
    [] c.pc = "upc_update" ->
         IF ~StatsExists(db, c.postId) THEN Fail(db, c, "RecordNotFound")
         ELSE Goto([db EXCEPT !.postStats =
                      {IF s.postId = c.postId
                         THEN [s EXCEPT !.commentsCount = c.cnt] ELSE s
                       : s \in db.postStats}],
                   c, "done")

\* createComment: find the parent, check the depth, create the comment, recount the
\* parent's replies, then updatePostCommentsCount.
CreateCommentStep(db, c) ==
  CASE c.pc = "cc_parent" ->
         LET f == FindComment(db, c.parentCommentId) IN
         IF f.err # "" THEN Fail(db, c, f.err)
         ELSE IF LevelRefused(f.comment.level + 1) THEN Fail(db, c, "BadRequest")
         ELSE Goto(db, [c EXCEPT !.found = TRUE, !.parentLevel = f.comment.level],
                   "cc_create")
    [] c.pc = "cc_create" ->
         IF ~PostExists(db, c.postId) THEN Fail(db, c, "ForeignKey")
         ELSE IF c.found /\ ~CommentExists(db, c.parentCommentId)
           THEN Fail(db, c, "ForeignKey")
         ELSE LET id == db.commentSeq + 1
                  row == [id |-> id, postId |-> c.postId,
                          parentCommentId |-> IF c.found THEN c.parentCommentId ELSE NoId,
                          level |-> IF c.found THEN c.parentLevel + 1 ELSE 0,
                          userId |-> c.userId, text |-> c.text, likes |-> 0,
                          subCommentsCount |-> 0, deleted |-> FALSE]
              IN  Goto([db EXCEPT !.comment = @ \cup {row}, !.commentSeq = id],
                       [c EXCEPT !.newId = id],
                       IF c.found THEN "cc_countSub" ELSE "upc_count")
    [] c.pc = "cc_countSub" ->
         Goto(db, [c EXCEPT !.cnt = Cardinality({k \in db.comment :
                                        k.parentCommentId = c.parentCommentId})],
              "cc_updateParent")
    [] c.pc = "cc_updateParent" ->
         IF ~CommentExists(db, c.parentCommentId) THEN Fail(db, c, "RecordNotFound")
         ELSE Goto([db EXCEPT !.comment =
                      {IF k.id = c.parentCommentId
                         THEN [k EXCEPT !.subCommentsCount = c.cnt] ELSE k
                       : k \in db.comment}],
                   c, "upc_count")

\* deleteComment: findComment, the author check, then set deletedAt.
DeleteCommentStep(db, c) ==
  CASE c.pc = "dc_find" ->
         LET f == FindComment(db, c.commentId) IN
         IF f.err # "" THEN Fail(db, c, f.err)
         ELSE IF f.comment.userId # c.userId THEN Fail(db, c, "Unauthorized")
         ELSE Goto(db, c, "dc_update")
    [] c.pc = "dc_update" ->
         IF ~CommentExists(db, c.commentId) THEN Fail(db, c, "RecordNotFound")
         ELSE Goto([db EXCEPT !.comment =
                      {IF k.id = c.commentId THEN [k EXCEPT !.deleted = TRUE] ELSE k
                       : k \in db.comment}],
                   c, "done")

\* updateCommentLikes: count the join rows, then write the count to the comment.
UpdateCommentLikesStep(db, c) ==
  CASE c.pc = "ucl_count" ->
         Goto(db, [c EXCEPT !.cnt = Cardinality({l \in db.commentLike :
                                        l.commentId = c.commentId})],
              "ucl_update")
    [] c.pc = "ucl_update" ->
         IF ~CommentExists(db, c.commentId) THEN Fail(db, c, "RecordNotFound")
         ELSE Goto([db EXCEPT !.comment =
                      {IF k.id = c.commentId THEN [k EXCEPT !.likes = c.cnt] ELSE k
                       : k \in db.comment}],
                   c, "done")

\* likeComment: look the join row up, create it when absent, updateCommentLikes.
LikeCommentStep(db, c) ==
  LET row == [commentId |-> c.commentId, userId |-> c.userId] IN
  CASE c.pc = "lc_find" ->
         LET was == row \in db.commentLike
         IN  Goto(db, [c EXCEPT !.found = was],
                  IF was THEN "ucl_count" ELSE "lc_create")
    [] c.pc = "lc_create" ->
         IF ~CommentExists(db, c.commentId) THEN Fail(db, c, "ForeignKey")
         ELSE IF row \in db.commentLike THEN Fail(db, c, "Unique")
         ELSE Goto([db EXCEPT !.commentLike = @ \cup {row}], c, "ucl_count")

\* unlikeComment: look the join row up, delete it when present, updateCommentLikes.
UnlikeCommentStep(db, c) ==
  LET row == [commentId |-> c.commentId, userId |-> c.userId] IN
  CASE c.pc = "ulc_find" ->
         LET was == row \in db.commentLike
         IN  Goto(db, [c EXCEPT !.found = was],
                  IF was THEN "ulc_delete" ELSE "ucl_count")
    [] c.pc = "ulc_delete" ->
         IF row \notin db.commentLike THEN Fail(db, c, "RecordNotFound")
         ELSE Goto([db EXCEPT !.commentLike = @ \ {row}], c, "ucl_count")

(* ------------------------------ reads --------------------------------- *)

\* The rows of a table in creation order (createdAt ascending), ids being 1..n.
OrderById(rows, n) ==
  LET ids == SelectSeq([i \in 1..n |-> i], LAMBDA i : \E r \in rows : r.id = i)
  IN  [j \in 1..Len(ids) |-> CHOOSE r \in rows : r.id = ids[j]]

Reverse(s) == [i \in 1..Len(s) |-> s[Len(s) + 1 - i]]

\* findMany's take.
size == 20
\* findMany's skip.
Skip == 1

\* Prisma's findMany({ take, skip, cursor }) over the ordered rows: start at the
\* cursor's row (at the first row without a cursor), pass over skip rows, return
\* at most take rows.  A cursor that names no row gives no rows.
FindMany(rows, cursor, skip, take) ==
  LET at == IF cursor = NoId THEN {1}
            ELSE {i \in 1..Len(rows) : rows[i].id = cursor}
  IN  IF at = {} THEN <<>>
      ELSE LET first == (CHOOSE i \in at : TRUE) + skip
               last == IF first + take - 1 < Len(rows) THEN first + take - 1
                       ELSE Len(rows)
           IN  SubSeq(rows, first, last)

\* getPostLikedMap / mergePostLiked: isLiked per post for the viewer, if any.
MergePostLiked(db, p, userId) ==
  p @@ [isLiked |-> userId # NoId /\ [postId |-> p.id, userId |-> userId] \in db.postLike]

\* findPostsByQuries: one page, newest first, and the cursor of the next page.
FindPostsByQuries(db, cursor, userId) ==
  LET posts == FindMany(Reverse(OrderById(db.post, db.postSeq)), cursor, Skip, size)
      postsWithLiked == [i \in 1..Len(posts) |-> MergePostLiked(db, posts[i], userId)]
  IN  [posts |-> postsWithLiked,
       nextCursor |-> IF Len(postsWithLiked) >= size
                        THEN postsWithLiked[size].id ELSE NoId]

\* getCommentLikeMap / mergeCommentLikeMap: isLiked per comment for the viewer.
MergeCommentLikeMap(db, k, userId) ==
  k @@ [isLiked |-> userId # NoId
                    /\ [commentId |-> k.id, userId |-> userId] \in db.commentLike,
        user |-> [id |-> k.userId, username |-> k.userId],
        createdAt |-> k.id]

\* hideDeletedComments: a soft-deleted comment is returned masked.
HideDeleted_KeepsContent(k) == k @@ [isDeleted |-> k.deleted]
HideDeleted(k) ==
  IF ~k.deleted THEN k @@ [isDeleted |-> FALSE]
  ELSE [k EXCEPT !.text = EmptyText, !.likes = 0, !.userId = NoId,
                 !.user = [id |-> NoId, username |-> NoId], !.createdAt = 0]
       @@ [isDeleted |-> TRUE]

HideDeletedComments(comments) ==
  [i \in 1..Len(comments) |-> HideDeleted(comments[i])]

\* groupSubComments: the roots, each with the comments whose parentCommentId is its id.
GroupSubComments(comments) ==
  LET rootComments == SelectSeq(comments, LAMBDA k : k.parentCommentId = NoId)
      subCommentsOf(id) ==
        SelectSeq(comments, LAMBDA k : k.parentCommentId # NoId
                                        /\ k.parentCommentId = id)
  IN  [i \in 1..Len(rootComments) |->
         rootComments[i] @@ [subComments |-> subCommentsOf(rootComments[i].id)]]

\* findComments: the post by slug, its comments oldest first, merged with the
\* viewer's likes, masked, grouped.
FindComments(db, slug, userId) ==
  IF ~SlugTaken(db, slug) THEN [err |-> "NotFound", comments |-> <<>>]
  ELSE LET p == CHOOSE p \in db.post : p.slug = slug
           comments == OrderById({k \in db.comment : k.postId = p.id}, db.commentSeq)
           commentsWithLiked ==
             [i \in 1..Len(comments) |-> MergeCommentLikeMap(db, comments[i], userId)]
       IN  [err |-> "",
            comments |-> GroupSubComments(HideDeletedComments(commentsWithLiked))]

(* ----------------------------- processes ------------------------------ *)

\* The next store call of a call in flight.
Step(db, c) ==
  CASE c.pc \in {"lp_find", "lp_create"} -> LikePostStep(db, c)
    [] c.pc \in {"ulp_find", "ulp_delete"} -> UnlikePostStep(db, c)
    [] c.pc \in {"upl_count", "upl_update"} -> UpdatePostLikesStep(db, c)
    [] c.pc \in {"cp_find", "cp_create", "cp_stats"} -> CreatePostStep(db, c)
    [] c.pc \in {"dp_find", "dp_delete"} -> DeletePostStep(db, c)
    [] c.pc \in {"cc_parent", "cc_create", "cc_countSub", "cc_updateParent"} ->
         CreateCommentStep(db, c)
    [] c.pc \in {"upc_count", "upc_update"} -> UpdatePostCommentsCountStep(db, c)
    [] c.pc \in {"dc_find", "dc_update"} -> DeleteCommentStep(db, c)
    [] c.pc \in {"lc_find", "lc_create"} -> LikeCommentStep(db, c)
    [] c.pc \in {"ulc_find", "ulc_delete"} -> UnlikeCommentStep(db, c)
    [] c.pc \in {"ucl_count", "ucl_update"} -> UpdateCommentLikesStep(db, c)

\* A handler run from its first store call to its return or its exception.
RECURSIVE Run(_, _)
Run(db, c) ==
  IF c.pc \in Final THEN [db |-> db, c |-> c]
  ELSE LET r == Step(db, c) IN Run(r.db, r.c)

\* The store and process p after p's store call; the calls of the other
\* processes are no longer quiet.
Apply(p, r) ==
  /\ post' = r.db.post
  /\ postStats' = r.db.postStats
  /\ postLike' = r.db.postLike
  /\ comment' = r.db.comment
  /\ commentLike' = r.db.commentLike
  /\ postSeq' = r.db.postSeq
  /\ commentSeq' = r.db.commentSeq
  /\ call' = [q \in Procs |->
                IF q = p THEN r.c
                ELSE IF call[q].pc # "idle" THEN [call[q] EXCEPT !.quiet = FALSE]
                ELSE call[q]]

IsStale(db, postId) ==
  \E s \in db.postStats :
    s.postId = postId /\ s.likes # Cardinality({l \in db.postLike : l.postId = postId})

CachedLikes(db, postId) ==
  IF StatsExists(db, postId)
    THEN (CHOOSE s \in db.postStats : s.postId = postId).likes
    ELSE 0

Repeats(last, c0) ==
  /\ last.pc = "done" /\ last.quiet
  /\ c0.op \in {"likePost", "unlikePost"}
  /\ last.op = c0.op /\ last.userId = c0.userId /\ last.postId = c0.postId

\* Process p receives call c0 and makes its first store call (atomic: all of them,
\* while no other call is in flight).
Invoke(p, c0, mode) ==
  /\ call[p].pc \in Final
  /\ budget # 0
  /\ mode.atomic => \A q \in Procs : call[q].pc \in Final
  /\ LET again == Repeats(call[p], c0)
         c == [c0 EXCEPT !.pre = IF mode.snapshot THEN DB ELSE EmptyDB,
                         !.stale = IsStale(DB, c0.postId),
                         !.repeat = again,
                         !.likes0 = IF again THEN CachedLikes(DB, c0.postId) ELSE 0]
         r == IF mode.atomic THEN Run(DB, c) ELSE Step(DB, c)
     IN  /\ mode.atomic => r.db.commentSeq <= MaxComments
         /\ Apply(p, r)
  /\ budget' = IF budget > 0 THEN budget - 1 ELSE budget
  /\ UNCHANGED walk

\* Process p makes the next store call of its call.
Continue(p) ==
  /\ call[p].pc \notin Final
  /\ Apply(p, Step(DB, call[p]))
  /\ UNCHANGED <<budget, walk>>

CreatePost(p, mode) ==
  /\ call[p].pc \in Final
  /\ \E u \in Authors, t \in Titles, g \in GenIds :
       Invoke(p, [IdleCall EXCEPT !.op = "createPost", !.pc = "cp_find",
                                  !.userId = u, !.title = t, !.gen = g], mode)

DeletePost(p, mode) ==
  /\ call[p].pc \in Final
  /\ \E u \in Authors, i \in PostArgs :
       Invoke(p, [IdleCall EXCEPT !.op = "deletePost", !.pc = "dp_find",
                                  !.userId = u, !.postId = i], mode)

LikePost(p, mode, posts) ==
  /\ call[p].pc \in Final
  /\ \E u \in Users, i \in posts :
       Invoke(p, [IdleCall EXCEPT !.op = "likePost", !.pc = "lp_find",
                                  !.userId = u, !.postId = i], mode)

UnlikePost(p, mode, posts) ==
  /\ call[p].pc \in Final
  /\ \E u \in Users, i \in posts :
       Invoke(p, [IdleCall EXCEPT !.op = "unlikePost", !.pc = "ulp_find",
                                  !.userId = u, !.postId = i], mode)

CreateComment(p, mode, authors, posts) ==
  /\ call[p].pc \in Final
  /\ \E u \in authors, t \in Texts, i \in posts, par \in 0..MaxComments :
       Invoke(p, [IdleCall EXCEPT !.op = "createComment",
                                  !.pc = IF par # NoId THEN "cc_parent" ELSE "cc_create",
                                  !.userId = u, !.text = t, !.postId = i,
                                  !.parentCommentId = par], mode)

DeleteComment(p, mode) ==
  /\ call[p].pc \in Final
  /\ \E u \in Authors, k \in 1..MaxComments :
       Invoke(p, [IdleCall EXCEPT !.op = "deleteComment", !.pc = "dc_find",
                                  !.userId = u, !.commentId = k], mode)

LikeComment(p, mode, likers) ==
  /\ call[p].pc \in Final
  /\ \E u \in likers, k \in 1..MaxComments :
       Invoke(p, [IdleCall EXCEPT !.op = "likeComment", !.pc = "lc_find",
                                  !.userId = u, !.commentId = k], mode)

UnlikeComment(p, mode, likers) ==
  /\ call[p].pc \in Final
  /\ \E u \in likers, k \in 1..MaxComments :
       Invoke(p, [IdleCall EXCEPT !.op = "unlikeComment", !.pc = "ulc_find",
                                  !.userId = u, !.commentId = k], mode)

\* The pagination client: it asks for the first page without a cursor, then for
\* the page after each nextCursor it is given, and stops when given none.
FetchPage ==
  /\ walk.state # "end"
  /\ LET r == FindPostsByQuries(DB, walk.cursor, walk.viewer)
     IN  walk' = [walk EXCEPT
                    !.state = IF r.nextCursor = NoId THEN "end" ELSE "more",
                    !.cursor = r.nextCursor,
                    !.got = @ \o [i \in 1..Len(r.posts) |-> r.posts[i].id],
                    !.pages = @ + 1]
  /\ UNCHANGED <<post, postStats, postLike, comment, commentLike, postSeq,
                 commentSeq, call, budget>>

(* --------------------------- specifications --------------------------- *)

IdleWalk == [state |-> "end", cursor |-> NoId, got |-> <<>>, pages |-> 0, viewer |-> NoId]

\* The store after createPost by each author: post i has the slug of i characters.
SeededDB ==
  [EmptyDB EXCEPT
     !.post = {[id |-> i, slug |-> [j \in 1..i |-> 1], userId |-> i] : i \in PostIds},
     !.postStats = {[postId |-> i, likes |-> 0, commentsCount |-> 0] : i \in PostIds},
     !.postSeq = Cardinality(PostIds)]

StoreIs(db) ==
  /\ post = db.post
  /\ postStats = db.postStats
  /\ postLike = db.postLike
  /\ comment = db.comment
  /\ commentLike = db.commentLike
  /\ postSeq = db.postSeq
  /\ commentSeq = db.commentSeq

\* Every handler, store call by store call, from the empty store.
Init ==
  /\ StoreIs(EmptyDB)
  /\ call = [p \in Procs |-> IdleCall]
  /\ budget = MaxCalls
  /\ walk = IdleWalk

Next ==
  \E p \in Procs :
    \/ CreatePost(p, Steps)
    \/ DeletePost(p, Steps)
    \/ LikePost(p, Steps, PostArgs)
    \/ UnlikePost(p, Steps, PostArgs)
    \/ CreateComment(p, Steps, Authors, PostArgs)
    \/ DeleteComment(p, Steps)
    \/ LikeComment(p, Steps, Authors)
    \/ UnlikeComment(p, Steps, Authors)
    \/ Continue(p)

Spec == Init /\ [][Next]_vars

InitSeeded ==
  /\ StoreIs(SeededDB)
  /\ call = [p \in Procs |-> IdleCall]
  /\ budget = -1
  /\ walk = IdleWalk

\* likePost and unlikePost on one post, store call by store call.
NextLikes ==
  \E p \in Procs :
    \/ LikePost(p, StepsOnly, {1})
    \/ UnlikePost(p, StepsOnly, {1})
    \/ Continue(p)

SpecLikes == InitSeeded /\ [][NextLikes]_vars

\* likePost and unlikePost one call after another.
NextLikesSeq ==
  \E p \in {1} :
    \/ LikePost(p, Atomic, PostArgs)
    \/ UnlikePost(p, Atomic, PostArgs)

SpecLikesSeq == InitSeeded /\ [][NextLikesSeq]_vars

\* createComment and deleteComment one call after another.
NextComments ==
  \E p \in {1} :
    \/ CreateComment(p, Atomic, Authors, PostArgs)
    \/ DeleteComment(p, Atomic)

SpecComments == InitSeeded /\ [][NextComments]_vars

\* Comments written by user 1, liked by user 1 and deleted, one call after another.
NextMask ==
  \E p \in {1} :
    \/ CreateComment(p, Atomic, {1}, PostIds)
    \/ DeleteComment(p, Atomic)
    \/ LikeComment(p, Atomic, {1})

SpecMask == InitSeeded /\ [][NextMask]_vars

\* Pagination over 0..MaxStored stored posts, the odd ones liked by user 1.
InitPage ==
  \E n \in 0..MaxStored, v \in {NoId, 1} :
    /\ StoreIs([EmptyDB EXCEPT
          !.post = {[id |-> i, slug |-> [j \in 1..i |-> 1], userId |-> 1] : i \in 1..n},
          !.postStats = {[postId |-> i, likes |-> i % 2, commentsCount |-> 0]
                         : i \in 1..n},
          !.postLike = {[postId |-> i, userId |-> 1] : i \in {j \in 1..n : j % 2 = 1}},
          !.postSeq = n])
    /\ call = [p \in Procs |-> IdleCall]
    /\ budget = -1
    /\ walk = [IdleWalk EXCEPT !.state = "start", !.viewer = v]

NextPage == FetchPage

SpecPage == InitPage /\ [][NextPage]_vars

(* ------------------------------ claims -------------------------------- *)

JoinRows(postId) == Cardinality({l \in postLike : l.postId = postId})

Finished(c, op) == c.op = op /\ c.pc \in {"done", "failed"}

\* C1: after likePost and unlikePost calls that run one after another, every
\* post's PostStats.likes is the number of like join rows stored for the post.
C1_LikesEqualJoinRows ==
  \A s \in postStats : s.likes = JoinRows(s.postId)

\* C1 witness: two users liked post 1 and one of them then unliked it: one row is
\* left and the cached count is 1.
C1_Witness ==
  /\ call[1].op = "unlikePost" /\ call[1].pc = "done" /\ call[1].found
  /\ call[1].postId = 1
  /\ JoinRows(1) = 1
  /\ \E s \in postStats : s.postId = 1 /\ s.likes = 1

\* C2: the pagination client, having asked for the first page without a cursor
\* and then for the page after each nextCursor until none is returned, has got
\* every stored post exactly once, newest first.
C2_WalkReturnsEveryPost ==
  (walk.state = "end" /\ walk.pages > 0)
    => walk.got = [i \in 1..postSeq |-> postSeq + 1 - i]

\* The parent a finished createComment named, as stored when the call began.
ParentBefore(c) == CommentById(c.pre, c.parentCommentId)
NamesParentOfLevel(c, level) ==
  /\ Finished(c, "createComment")
  /\ CommentExists(c.pre, c.parentCommentId)
  /\ ParentBefore(c).level = level

\* Every stored comment has level 0 or 1; a reply's level is its parent's plus one.
C3_Levels ==
  \A k \in comment :
    /\ k.level \in {0, 1}
    /\ k.parentCommentId = NoId => k.level = 0
    /\ k.parentCommentId # NoId =>
         /\ CommentExists(DB, k.parentCommentId)
         /\ k.level = CommentById(DB, k.parentCommentId).level + 1

\* A reply to a live level-0 comment, for a stored post, is stored with level 1.
C3_ReplyToRootStored(c) ==
  (/\ NamesParentOfLevel(c, 0)
   /\ ~ParentBefore(c).deleted
   /\ PostExists(c.pre, c.postId))
    => /\ c.pc = "done"
       /\ ~CommentExists(c.pre, c.newId)
       /\ \E k \in comment :
            /\ k.id = c.newId
            /\ k.level = 1 /\ k.parentCommentId = c.parentCommentId
            /\ k.postId = c.postId /\ k.userId = c.userId /\ k.text = c.text

\* C3 (as claimed): createComment naming a level-1 parent fails with BadRequest
\* and stores nothing; naming a live level-0 parent on an existing post it stores
\* the reply with level 1; every stored level is 0 or 1 and parent's plus one.
C3_ReplyToReplyIsBadRequest ==
  /\ C3_Levels
  /\ \A p \in Procs :
       /\ NamesParentOfLevel(call[p], 1) =>
            /\ call[p].pc = "failed" /\ call[p].err = "BadRequest"
            /\ DB = call[p].pre
       /\ C3_ReplyToRootStored(call[p])

\* C3 (amended): createComment naming a level-1 parent fails and stores nothing,
\* with BadRequest when the parent is live and with NotFound when it is
\* soft-deleted; the rest as claimed.
C3_ReplyToReplyFails ==
  /\ C3_Levels
  /\ \A p \in Procs :
       /\ NamesParentOfLevel(call[p], 1) =>
            /\ call[p].pc = "failed"
            /\ call[p].err = IF ParentBefore(call[p]).deleted
                               THEN "NotFound" ELSE "BadRequest"
            /\ DB = call[p].pre
       /\ C3_ReplyToRootStored(call[p])

\* C3 witness: a reply to a live reply was refused with BadRequest.
C3_Witness ==
  /\ NamesParentOfLevel(call[1], 1)
  /\ ~ParentBefore(call[1]).deleted
  /\ call[1].err = "BadRequest"

\* C4: a createPost call never ends in an error, and no two stored posts share
\* a slug.
C4_CreatePostNeverFails ==
  /\ \A p \in Procs : Finished(call[p], "createPost") => call[p].pc = "done"
  /\ \A a, b \in post : a.slug = b.slug => a = b

\* The store with every cached likes count set to n.
WithLikes(db, n) ==
  [db EXCEPT !.postStats = {[s EXCEPT !.likes = n] : s \in db.postStats}]

\* C5: a likePost or unlikePost that no other call's store call interleaves with
\* ends with PostStats.likes equal to the number of join rows, whatever the count
\* was before; and the join rows a store call leaves do not depend on the cached
\* count.
C5_QuietCallHeals ==
  \A p \in Procs :
    /\ (call[p].op \in {"likePost", "unlikePost"} /\ call[p].pc = "done"
          /\ call[p].quiet)
         => \A s \in postStats :
              s.postId = call[p].postId => s.likes = JoinRows(s.postId)
    /\ call[p].pc \notin Final
         => \A n \in 0..(MaxUsers + 1) :
              Step(WithLikes(DB, n), call[p]).db.postLike
                = Step(DB, call[p]).db.postLike

\* C5 witness: overlapping calls had all ended with a cached count different
\* from the number of join rows, and the next call, run alone, has ended.
C5_Witness ==
  \E p \in Procs :
    /\ call[p].op \in {"likePost", "unlikePost"} /\ call[p].pc = "done"
    /\ call[p].quiet /\ call[p].stale
    /\ \A q \in Procs : call[q].pc \in Final

\* C6: a likePost that repeats the likePost just completed by the same user on
\* the same post, no other call's store call interleaving with either, succeeds
\* and leaves the user's one join row and PostStats.likes as the first call
\* left them; a repeated unlikePost leaves no join row and the count unchanged.
C6_SecondCallIsNoOp ==
  \A p \in Procs :
    LET c == call[p]
        row == [postId |-> c.postId, userId |-> c.userId]
    IN  (c.pc \in {"done", "failed"} /\ c.repeat /\ c.quiet)
          => /\ c.pc = "done"
             /\ c.op = "likePost" => Cardinality({l \in postLike : l = row}) = 1
             /\ c.op = "unlikePost" => row \notin postLike
             /\ \A s \in postStats : s.postId = c.postId => s.likes = c.likes0

\* C6 witness: user 1 has liked post 1 twice in a row, user 2's like being
\* stored too.
C6_Witness ==
  \E p \in Procs :
    /\ call[p].op = "likePost" /\ call[p].pc = "done"
    /\ call[p].repeat /\ call[p].quiet
    /\ call[p].userId = 1 /\ call[p].postId = 1
    /\ JoinRows(1) = 2

\* C7: a call that ends in an error, and that no other call's store call
\* interleaved with, leaves the store exactly as it was when the call began.
C7_FailedCallChangesNothing ==
  \A p \in Procs :
    (call[p].pc = "failed" /\ call[p].quiet) => DB = call[p].pre

\* C8: every post's PostStats.commentsCount is the number of comments stored
\* with its postId, soft-deleted ones included; a deleteComment that succeeds
\* sets the comment's delete timestamp and changes nothing else.
C8_CommentsCountCountsAll ==
  /\ \A s \in postStats :
       s.commentsCount = Cardinality({k \in comment : k.postId = s.postId})
  /\ \A p \in Procs :
       (call[p].op = "deleteComment" /\ call[p].pc = "done")
         => DB = [call[p].pre EXCEPT !.comment =
                    {IF k.id = call[p].commentId THEN [k EXCEPT !.deleted = TRUE]
                     ELSE k : k \in call[p].pre.comment}]

\* C8 witness: a post holds two comments, one of them just soft-deleted, and its
\* commentsCount is 2.
C8_Witness ==
  /\ call[1].op = "deleteComment" /\ call[1].pc = "done"
  /\ \E k \in comment, s \in postStats :
       /\ k.id = call[1].commentId /\ k.deleted
       /\ s.postId = k.postId /\ s.commentsCount = 2

\* The rows of a findComments result: the roots and the replies embedded in them.
RowsOf(L) ==
  {L[i] : i \in 1..Len(L)}
    \cup UNION {{L[i].subComments[j] : j \in 1..Len(L[i].subComments)} : i \in 1..Len(L)}

Place(r) == [id |-> r.id, parentCommentId |-> r.parentCommentId, level |-> r.level]

\* The tree of a findComments result: ids, parents and levels, in place.
Shape(db, slug) ==
  LET L == FindComments(db, slug, NoId).comments
  IN  [i \in 1..Len(L) |->
         [root |-> Place(L[i]),
          subComments |-> [j \in 1..Len(L[i].subComments) |->
                             Place(L[i].subComments[j])]]]

\* C9: in every list, a row has the id, parentCommentId and level of its stored
\* comment; a soft-deleted comment's row has the empty text, likes 0, the null
\* author and isDeleted, any other row the stored text and likes and not
\* isDeleted; every root of the post is listed, and every reply whose parent is
\* a comment of the post is listed inside that parent, deleted or not; and a
\* deleteComment that succeeds leaves the tree of every list as it was.
C9_DeletedCommentsAreMasked ==
  /\ \A po \in post, v \in {NoId, 1} :
       LET L == FindComments(DB, po.slug, v).comments IN
       /\ \A r \in RowsOf(L) :
            LET k == CommentById(DB, r.id) IN
            /\ CommentExists(DB, r.id)
            /\ Place(r) = Place(k)
            /\ IF k.deleted
                 THEN /\ r.text = EmptyText /\ r.likes = 0 /\ r.isDeleted
                      /\ r.user = [id |-> NoId, username |-> NoId]
                 ELSE /\ r.text = k.text /\ r.likes = k.likes /\ ~r.isDeleted
       /\ \A k \in comment :
            k.postId = po.id =>
              /\ k.parentCommentId = NoId => \E i \in 1..Len(L) : L[i].id = k.id
              /\ (k.parentCommentId # NoId
                    /\ CommentById(DB, k.parentCommentId).postId = po.id)
                   => \E i \in 1..Len(L) :
                        /\ L[i].id = k.parentCommentId
                        /\ \E j \in 1..Len(L[i].subComments) :
                             L[i].subComments[j].id = k.id
  /\ \A p \in Procs :
       (call[p].op = "deleteComment" /\ call[p].pc = "done")
         => \A po \in post : Shape(DB, po.slug) = Shape(call[p].pre, po.slug)

\* C9 witness: a liked root comment that has a reply has just been soft-deleted.
C9_Witness ==
  /\ call[1].op = "deleteComment" /\ call[1].pc = "done"
  /\ \E k, r \in comment :
       /\ k.id = call[1].commentId /\ k.deleted /\ k.likes > 0
       /\ k.parentCommentId = NoId
       /\ r.parentCommentId = k.id /\ r.postId = k.postId

\* C10: the list of a post holds every comment stored under the post exactly
\* once: the level-0 comments as roots in creation order, every reply inside
\* the subComments of its own parent.
C10_ListHoldsEveryComment ==
  \A po \in post :
    LET L == FindComments(DB, po.slug, NoId).comments
        stored == {k \in comment : k.postId = po.id}
        subs(i) == L[i].subComments
    IN  /\ \A k \in stored :
             IF k.level = 0
               THEN Cardinality({i \in 1..Len(L) : L[i].id = k.id}) = 1
               ELSE Cardinality({<<i, j>> \in (1..Len(L)) \X (1..MaxComments + 1) :
                                   /\ j <= Len(subs(i))
                                   /\ subs(i)[j].id = k.id
                                   /\ L[i].id = k.parentCommentId}) = 1
        /\ \A i, j \in 1..Len(L) : i < j => L[i].id < L[j].id
        /\ Cardinality(RowsOf(L)) = Cardinality(stored)

=============================================================================
